---- MODULE Spec2Model ----
(***************************************************************************)
(* Model of botasaurus_driver.core.tab.Tab: the polling lookups (select,   *)
(* select_all, find, find_all, wait_for), the selector queries             *)
(* (query_selector, query_selector_all) with their stale-node recovery,    *)
(* and the text search (find_element_by_text, find_elements_by_text,       *)
(* checktextnodeandappend), the script calls (evaluate, js_dumps) and the   *)
(* call alias Tab.__call__; of the protocol session Tab is built on       *)
(* (Connection: send, the receive loop, listeners, close); and of the      *)
(* DOMStorage commands of cdp.dom_storage.                                 *)
(*                                                                         *)
(* One call of the Tab API runs at a time (the event loop is cooperative   *)
(* and the model follows one caller).  A call is cut at its awaits.  Time  *)
(* is loop.time() - now in ticks of 0.25 s; a protocol round trip takes a  *)
(* nondeterministic number of ticks.                                       *)
(***************************************************************************)
EXTENDS Integers, Sequences, FiniteSets, TLC

VARIABLES
    op,            \* the Tab method being executed, "none" when idle
    args,          \* its arguments
    pc,            \* position of the caller: idle, lookup, got, sleep, done
    clock,         \* loop.time() - now
    item,          \* `item` / `results`: value of the last lookup attempt
    ret,           \* what the call returned or raised
    attempts,      \* lookup attempts started by this call
    attemptStart,  \* clock when the last attempt started
    matched,       \* some attempt of this call produced a non-empty value
    hits,          \* what the protocol returned to the last attempt: node ids
                   \* (the replies to Runtime.evaluate for evaluate, js_dumps)
    qpc,           \* position inside query_selector(_all): off, start, send, update, disable
    qdepth,        \* depth of the recursive retry of query_selector(_all)
    qdoc,          \* `doc` of the running query (a node id, 0 for None)
    qerr,          \* message of the ProtocolException being handled
    sent,          \* protocol commands and node refreshes issued by the last attempt
    nodeAttrs,     \* python attributes set on each object passed as `_node`
    nextId,        \* session: the last request id assigned
    pending,       \* session: the PendingCalls, one per id: [id, call]
    outbound,      \* transport: ids of the requests the browser has not answered
    inbound,       \* transport: messages the receive loop has not read
    calls,         \* one record per send, in call order: id, outcome, resolutions
    listeners,     \* session: per event name, the listeners in subscription order
    delivered,     \* listener invocations, in order: [listener, method, seq]
    dispatched,    \* event occurrences dispatched: [method, seq, to]
    dropped,       \* messages the receive loop dropped
    emitted,       \* events the browser has emitted
    running,       \* the receive loop runs
    closed,        \* the session was closed
    download_behavior, \* Tab._download_behavior: << >> for None, or <<"allow", path>>
    browserDownload,   \* the download behaviour in effect in the browser
    downloadCalls      \* one record per set_download_path / download_file call

\* the state of a call on the tab
tabVars ==
    <<op, args, pc, clock, item, ret, attempts, attemptStart, matched, hits,
      qpc, qdepth, qdoc, qerr, sent, nodeAttrs>>

\* the state of the protocol session and its transport
sessVars ==
    <<nextId, pending, outbound, inbound, calls, listeners, delivered,
      dispatched, dropped, emitted, running, closed>>

\* the download state of the tab and of the browser
fileVars == <<download_behavior, browserDownload, downloadCalls>>

vars ==
    <<op, args, pc, clock, item, ret, attempts, attemptStart, matched, hits,
      qpc, qdepth, qdoc, qerr, sent, nodeAttrs,
      nextId, pending, outbound, inbound, calls, listeners, delivered,
      dispatched, dropped, emitted, running, closed,
      download_behavior, browserDownload, downloadCalls>>

---------------------------------------------------------------------------
\* Bounds of the model.

\* largest timeout argument, in ticks
MaxTimeout == 2
\* longest protocol round trip, in ticks
MaxLatency == 1
\* most node ids in one protocol reply
MaxIds == 2
\* most entries in one reply to DOMStorage.getDOMStorageItems
MaxEntries == 2
\* most commands sent on one session
MaxCalls == 3
\* most events the browser emits on one session
MaxEvents == 2
\* most set_download_path / download_file calls on one tab
MaxDownloads == 3
\* depth at which the interpreter raises RecursionError (sys.getrecursionlimit)
RecursionLimit == 3

\* self.sleep(0.5): the retry interval, two ticks of 0.25 s
RetryInterval == 2

---------------------------------------------------------------------------
\* The document the browser holds: a snapshot as DOM.getDocument returns it.

\* node ids of the snapshot
NodeIds == 1..13

\* cdp.dom.Node.node_type: 1 element, 3 text, 9 document
NodeType(n) ==
    CASE n \in {1, 9} -> 9
      [] n \in {3, 5, 7, 12, 13} -> 3
      [] OTHER -> 1

\* cdp.dom.Node.node_name
NodeName(n) ==
    CASE n \in {1, 9} -> "#document"
      [] n \in {3, 5, 7, 12, 13} -> "#text"
      [] n = 2 -> "DIV"
      [] n = 4 -> "SPAN"
      [] n = 6 -> "SCRIPT"
      [] n \in {8, 11} -> "IFRAME"
      [] n = 10 -> "P"
      [] OTHER -> "?"

\* the node whose children list holds n in the snapshot, 0 for a root
TreeParent(n) ==
    CASE n \in {2, 6, 8, 11} -> 1
      [] n \in {3, 4, 12, 13} -> 2
      [] n = 5 -> 4
      [] n = 7 -> 6
      [] n = 10 -> 9
      [] OTHER -> 0

\* cdp.dom.Node.parent_id as the snapshot records it, 0 for None (the field
\* is optional in the protocol: nodes 12 and 13 came without it)
ParentId(n) ==
    IF n \in {12, 13} THEN 0 ELSE TreeParent(n)

\* parent_id of a node once Element.update() has re-read it, 0 for None
ParentAfterUpdate(n) ==
    IF n = 13 THEN 2 ELSE ParentId(n)

\* cdp.dom.Node.content_document of a frame owner, 0 for None
ContentDocument(n) ==
    IF n = 8 THEN 9 ELSE 0

RECURSIVE InTree(_, _)
\* util.filter_recurse(doc, lambda n: n.node_id == nid) finds a node:
\* nid is a proper descendant of doc through the children lists
InTree(doc, nid) ==
    /\ nid \in NodeIds
    /\ TreeParent(nid) # 0
    /\ (TreeParent(nid) = doc \/ InTree(doc, TreeParent(nid)))

\* Element.text: the value of the first text node under the element
ElemText(n) ==
    CASE n \in {2, 3, 6, 7, 12, 13} -> "go"
      [] n \in {4, 5} -> "going"
      [] OTHER -> ""

\* str.lower() on the node names and tag arguments in use
Lower(s) ==
    CASE s = "DIV" -> "div"
      [] s = "SPAN" -> "span"
      [] s = "SCRIPT" -> "script"
      [] s = "IFRAME" -> "iframe"
      [] s = "P" -> "p"
      [] OTHER -> s

---------------------------------------------------------------------------
\* Values.

\* None
None == [k |-> "none", elems |-> << >>]

\* an Element wrapping node id, resolved from the protocol's node id hit
Elem(id, hit) == [k |-> "elem", elems |-> <<[id |-> id, hit |-> hit]>>]

\* a python list of Elements
List(es) == [k |-> "list", elems |-> es]

\* python truthiness of None, an Element, a list
Truthy(v) == v.k = "elem" \/ (v.k = "list" /\ v.elems # << >>)

\* nothing returned or raised yet
Pending == [kind |-> "pending", val |-> None, exc |-> "", msg |-> ""]

\* `return v`
Returned(v) == [kind |-> "return", val |-> v, exc |-> "", msg |-> ""]

\* `raise e`, e carrying message m
Raised(e, m) == [kind |-> "raise", val |-> None, exc |-> e, msg |-> m]

\* the nodes a caller scopes a query to: a DIV, a frame, a frame without document
ScopeNodes == {2, 8, 11}

NoArgs ==
    [timeout |-> 0, node |-> 0, selector |-> "", text |-> "", node_name |-> "",
     enclosing |-> TRUE, type |-> "", exact |-> FALSE, best |-> FALSE,
     expression |-> "", await_promise |-> FALSE, return_by_value |-> TRUE,
     obj_name |-> "", tab_text |-> "", tab_selector |-> "",
     storage_id |-> [is_local_storage |-> FALSE, security_origin |-> << >>,
                     storage_key |-> << >>],
     key |-> "", value |-> "", path |-> ""]

Init ==
    /\ op = "none"
    /\ args = NoArgs
    /\ pc = "idle"
    /\ clock = 0
    /\ item = None
    /\ ret = Pending
    /\ attempts = 0
    /\ attemptStart = 0
    /\ matched = FALSE
    /\ hits = << >>
    /\ qpc = "off"
    /\ qdepth = 0
    /\ qdoc = 0
    /\ qerr = ""
    /\ sent = << >>
    /\ nodeAttrs = [n \in ScopeNodes |-> {}]
    /\ nextId = 0
    /\ pending = {}
    /\ outbound = {}
    /\ inbound = {}
    /\ calls = << >>
    /\ listeners = [m \in {"DOMStorage.domStorageItemAdded",
                           "DOMStorage.domStorageItemsCleared"} |-> << >>]
    /\ delivered = << >>
    /\ dispatched = << >>
    /\ dropped = 0
    /\ emitted = 0
    /\ running = TRUE
    /\ closed = FALSE
    /\ download_behavior = << >>
    /\ browserDownload = << >>
    /\ downloadCalls = << >>

---------------------------------------------------------------------------
\* query_selector and query_selector_all.

\* the methods that look up through query_selector (one node id per reply)
SingleOps == {"query_selector", "select", "wait_for"}

\* the methods that look up through query_selector_all
AllOps == {"query_selector_all", "select_all"}

SelectorOps == SingleOps \cup AllOps

\* the methods that poll
PollOps == {"select", "select_all", "find", "find_all", "wait_for"}

\* ProtocolException.message values the browser answers with
Messages == {"Could not find node with given id", "DOM Error while querying"}

\* "could not find node" in e.message.lower()
CouldNotFindNode(m) == m = "Could not find node with given id"

\* the attribute name `_node.__last` compiles to inside class Tab (private
\* name mangling applies to the attribute reference, not to a string)
FlagName == "_Tab__last"

\* getattr(_node, "__last", None): the attribute literally named __last
GuardSet(attrs) == "__last" \in attrs

\* an unscoped query run against a document held from before (the frame's)
QueryHeldDoc(node) ==
    IF node = 0 THEN 9
    ELSE IF NodeName(node) = "IFRAME" THEN ContentDocument(node)
    ELSE node

\* `doc` of a query: the fetched document root, the node, or a frame's document
QueryDoc(node) ==
    IF node = 0 THEN 1
    ELSE IF NodeName(node) = "IFRAME" THEN ContentDocument(node)
    ELSE node

\* query_selector: the element for the reply's node id, None when the id is
\* 0 or not in the tree of doc
ResolveOne(doc, ids) ==
    IF ids = << >> THEN None
    ELSE IF InTree(doc, ids[1]) THEN Elem(ids[1], ids[1])
    ELSE None

\* one element per node id of the reply, in the tree or not
ResolveEvery(doc, ids) ==
    [i \in 1..Len(ids) |-> [id |-> ids[i], hit |-> ids[i]]]

RECURSIVE ResolveAll(_, _)
\* query_selector_all: one element per node id found in the tree of doc
ResolveAll(doc, ids) ==
    IF ids = << >> THEN << >>
    ELSE IF InTree(doc, Head(ids))
         THEN <<[id |-> Head(ids), hit |-> Head(ids)]>> \o ResolveAll(doc, Tail(ids))
         ELSE ResolveAll(doc, Tail(ids))

\* what the query returns for a successful reply
QueryValue(o, doc, ids) ==
    IF o \in SingleOps THEN ResolveOne(doc, ids) ELSE List(ResolveAll(doc, ids))

\* what the query returns when a node-scoped query swallowed the error:
\* node_id stays None, node_ids stays []
SwallowedValue(o) ==
    IF o \in SingleOps THEN None ELSE List(<< >>)

\* sequences of k distinct node ids (a reply names a node once)
DistinctSeqs(ids, k) ==
    {s \in [1..k -> ids] : \A i, j \in 1..k : i # j => s[i] # s[j]}

\* node ids a reply may carry: each is missing from the tree of some `doc`
\* (4 is under the DIV, 6 under the root only, 10 in the frame's document)
ReplyIds == {4, 6, 10}

\* replies to DOM.querySelector / DOM.querySelectorAll
Replies(o) ==
    LET n == IF o \in SingleOps THEN 1 ELSE MaxIds
        seqs == UNION {DistinctSeqs(ReplyIds, k) : k \in 0..n}
    IN  {[ok |-> TRUE, ids |-> s, msg |-> ""] : s \in seqs}
        \cup {[ok |-> FALSE, ids |-> << >>, msg |-> m] : m \in Messages}

\* ticks a protocol round trip may take; only the polling methods read the clock
Latencies(o) == IF o \in PollOps THEN 0..MaxLatency ELSE {0}

\* the lookup attempt ends with value v
LookupReturns(v) ==
    /\ item' = v
    /\ matched' = (matched \/ Truthy(v))
    /\ pc' = "got"
    /\ qpc' = "off"
    /\ ret' = ret

\* the lookup attempt ends with exception e, which no caller catches
LookupRaises(e, m) ==
    /\ ret' = Raised(e, m)
    /\ pc' = "done"
    /\ qpc' = "off"
    /\ item' = item
    /\ matched' = matched

\* lines 395-403 / 336-342: choose the document to query
QStart ==
    /\ pc = "lookup"
    /\ qpc = "start"
    /\ LET doc == QueryDoc(args.node) IN
        /\ sent' = IF args.node = 0
                   THEN Append(sent, [cmd |-> "DOM.getDocument", node |-> 0, selector |-> ""])
                   ELSE sent
        /\ qdoc' = doc
        /\ IF doc = 0
           THEN LookupRaises(IF op \in SingleOps THEN "DriverException" ELSE "AttributeError", "")
           ELSE /\ qpc' = "send"
                /\ UNCHANGED <<pc, item, ret, matched>>
    /\ UNCHANGED <<op, args, clock, attempts, attemptStart, hits, qdepth, qerr, nodeAttrs>>
    /\ UNCHANGED <<sessVars, fileVars>>

\* lines 404-428 / 344-379: the selector command is answered
QReply ==
    /\ pc = "lookup"
    /\ qpc = "send"
    /\ \E r \in Replies(op), d \in Latencies(op) :
        /\ clock' = clock + d
        /\ sent' = Append(sent, [cmd |-> IF op \in SingleOps THEN "DOM.querySelector"
                                         ELSE "DOM.querySelectorAll",
                                 node |-> qdoc, selector |-> args.selector])
        /\ hits' = r.ids
        /\ qerr' = IF r.ok THEN qerr ELSE r.msg
        /\ IF r.ok
           THEN /\ LookupReturns(QueryValue(op, qdoc, r.ids))
                /\ UNCHANGED nodeAttrs
           ELSE IF args.node # 0
           THEN IF CouldNotFindNode(r.msg)
                THEN IF GuardSet(nodeAttrs[args.node])
                     THEN /\ nodeAttrs' = [nodeAttrs EXCEPT ![args.node] = @ \ {FlagName}]
                          /\ IF FlagName \in nodeAttrs[args.node]
                             THEN LookupReturns(List(<< >>))
                             ELSE LookupRaises("AttributeError", "")
                     ELSE /\ qpc' = "update"
                          /\ UNCHANGED <<pc, item, ret, matched, nodeAttrs>>
                ELSE /\ LookupReturns(SwallowedValue(op))
                     /\ UNCHANGED nodeAttrs
           ELSE /\ qpc' = "disable"
                /\ UNCHANGED <<pc, item, ret, matched, nodeAttrs>>
    /\ UNCHANGED <<op, args, attempts, attemptStart, qdepth, qdoc>>
    /\ UNCHANGED <<sessVars, fileVars>>

\* lines 415-419 / 358-362: refresh the node, set the flag, call the query again
QUpdate ==
    /\ pc = "lookup"
    /\ qpc = "update"
    /\ sent' = Append(sent, [cmd |-> "update", node |-> args.node, selector |-> ""])
    /\ nodeAttrs' = [nodeAttrs EXCEPT ![args.node] = @ \cup {FlagName}]
    /\ IF qdepth + 1 >= RecursionLimit
       THEN /\ LookupRaises("RecursionError", "")
            /\ qdepth' = qdepth
       ELSE /\ qdepth' = qdepth + 1
            /\ qpc' = "start"
            /\ UNCHANGED <<pc, item, ret, matched>>
    /\ UNCHANGED <<op, args, clock, attempts, attemptStart, hits, qdoc, qerr>>
    /\ UNCHANGED <<sessVars, fileVars>>

\* the error of an unscoped query swallowed like that of a scoped one
QSwallow ==
    /\ pc = "lookup"
    /\ qpc = "disable"
    /\ sent' = Append(sent, [cmd |-> "DOM.disable", node |-> 0, selector |-> ""])
    /\ LookupReturns(SwallowedValue(op))
    /\ UNCHANGED <<op, args, clock, attempts, attemptStart, hits, qdepth, qdoc, qerr, nodeAttrs>>
    /\ UNCHANGED <<sessVars, fileVars>>

\* lines 420-422 / 363-365: unscoped query, send DOM.disable and re-raise
QDisable ==
    /\ pc = "lookup"
    /\ qpc = "disable"
    /\ sent' = Append(sent, [cmd |-> "DOM.disable", node |-> 0, selector |-> ""])
    /\ LookupRaises("ProtocolException", qerr)
    /\ UNCHANGED <<op, args, clock, attempts, attemptStart, hits, qdepth, qdoc, qerr, nodeAttrs>>
    /\ UNCHANGED <<sessVars, fileVars>>


---------------------------------------------------------------------------
\* The text search: find_element_by_text, find_elements_by_text.

\* the methods that look up through find_element_by_text
TextSingleOps == {"find", "find_element_by_text"}

\* the methods that look up through find_elements_by_text
TextAllOps == {"find_all", "find_elements_by_text"}

\* bannedtextsearchresults
Banned == {"title", "meta", "script", "link", "style", "head"}

\* no tag banned from the results
NeverBanned(n) == FALSE

\* isbanned(node)
IsBanned(n) == Lower(NodeName(n)) \in Banned

\* issametype(node, type)
IsSameType(n, type) == Lower(NodeName(n)) = type

\* every candidate appended, whatever its text
AppendAlways(results, e, text, exact) == Append(results, e)

\* append_safe(results, elem, text, exact_match)
AppendSafe(results, e, text, exact) ==
    IF exact
    THEN IF text = ElemText(e.id) THEN Append(results, e) ELSE results
    ELSE Append(results, e)

\* elem.parent of the element for node nid: the node its parent_id names,
\* when the tree of doc holds it; 0 for None
ParentOf(doc, pid) ==
    IF pid # 0 /\ InTree(doc, pid) THEN pid ELSE 0

\* a text node without parent is refreshed before `elem.parent or elem`
NeedsUpdate(doc, nid) ==
    NodeType(nid) = 3 /\ ParentOf(doc, ParentId(nid)) = 0

\* `final` of checktextnodeandappend: the parent of a text node when it has
\* one (after the refresh), the node itself otherwise
FinalNode(doc, nid) ==
    IF NodeType(nid) = 3
    THEN LET p == IF NeedsUpdate(doc, nid)
                  THEN ParentOf(doc, ParentAfterUpdate(nid))
                  ELSE ParentOf(doc, ParentId(nid))
         IN  IF p # 0 THEN p ELSE nid
    ELSE nid

\* checktextnodeandappend(type, results, elem, text, exact_match)
CheckTextNodeAndAppend(doc, type, results, nid, text, exact) ==
    LET final == FinalNode(doc, nid)
        keep == IF type # "" THEN IsSameType(final, type) ELSE ~IsBanned(final)
    IN  IF keep
        THEN AppendSafe(results, [id |-> final, hit |-> nid], text, exact)
        ELSE results

\* a protocol command in the log of an attempt
Cmd(c, n) == [cmd |-> c, node |-> n, selector |-> ""]

\* the refresh checktextnodeandappend issues for hit nid, if any
UpdateLog(doc, nid) ==
    IF NeedsUpdate(doc, nid) THEN <<Cmd("update", nid)>> ELSE << >>

\* a scan that keeps the last hit that passes the tests
ScanFromEnd(a, hs, results, log) ==
    LET passing == {i \in DOMAIN hs :
                       /\ InTree(1, hs[i])
                       /\ CheckTextNodeAndAppend(1, a.type, << >>, hs[i], a.text, a.exact)
                              # << >>}
        last == CHOOSE i \in passing : \A j \in passing : j <= i
    IN  IF passing = {}
        THEN [results |-> results, early |-> FALSE, log |-> log]
        ELSE [results |-> CheckTextNodeAndAppend(1, a.type, << >>, hs[last], a.text, a.exact),
              early |-> FALSE, log |-> log \o UpdateLog(1, hs[last])]

RECURSIVE ScanOne(_, _, _, _)
\* the loop of find_element_by_text, lines 538-549: results, whether the
\* loop returned from inside (`if results: return results[0]`), and the
\* refreshes it issued
ScanOne(a, hs, results, log) ==
    IF hs = << >> THEN [results |-> results, early |-> FALSE, log |-> log]
    ELSE IF results # << >> THEN [results |-> results, early |-> TRUE, log |-> log]
    ELSE IF ~InTree(1, Head(hs)) THEN ScanOne(a, Tail(hs), results, log)
    ELSE ScanOne(a, Tail(hs),
                 CheckTextNodeAndAppend(1, a.type, results, Head(hs), a.text, a.exact),
                 log \o UpdateLog(1, Head(hs)))

RECURSIVE ScanAll(_, _, _, _)
\* the loop of find_elements_by_text, lines 461-474
ScanAll(a, hs, results, log) ==
    IF hs = << >> THEN [results |-> results, early |-> FALSE, log |-> log]
    ELSE IF ~InTree(1, Head(hs))
         THEN ScanAll(a, Tail(hs), results, Append(log, Cmd("DOM.resolveNode", Head(hs))))
    ELSE ScanAll(a, Tail(hs),
                 CheckTextNodeAndAppend(1, a.type, results, Head(hs), a.text, a.exact),
                 log \o UpdateLog(1, Head(hs)))

\* find_element_by_text: the value returned and the commands sent
FindElementByText(a, hs) ==
    LET s == ScanOne(a, hs, << >>, << >>) IN
    [val |-> IF s.results = << >> THEN None
             ELSE Elem(s.results[1].id, s.results[1].hit),
     log |-> <<Cmd("DOM.getDocument", 0), Cmd("DOM.performSearch", 0),
               Cmd("DOM.getSearchResults", 0), Cmd("DOM.discardSearchResults", 0)>>
             \o s.log
             \o (IF s.early THEN << >> ELSE <<Cmd("DOM.disable", 0)>>)]

\* find_elements_by_text: the value returned and the commands sent
FindElementsByText(a, hs) ==
    LET s == ScanAll(a, hs, << >>, << >>) IN
    [val |-> List(s.results),
     log |-> <<Cmd("DOM.getDocument", 0), Cmd("DOM.performSearch", 0)>>
             \o (IF hs # << >> THEN <<Cmd("DOM.getSearchResults", 0)>> ELSE << >>)
             \o <<Cmd("DOM.discardSearchResults", 0)>>
             \o s.log
             \o <<Cmd("DOM.disable", 0)>>]

\* node ids DOM.getSearchResults may answer: text nodes under a DIV and a
\* SCRIPT, an element, a node outside the fetched tree, and text nodes that
\* came without parent_id
TextHitIds == {3, 4, 7, 10, 12, 13}

HitSeqs == UNION {DistinctSeqs(TextHitIds, k) : k \in 0..MaxIds}

\* one run of find_element_by_text / find_elements_by_text.  With no hit,
\* find_element_by_text still asks for the results 0..0, which the browser
\* may refuse with a protocol error (the guard `if nresult == 0` is
\* commented out, line 531)
TextSearch ==
    /\ pc = "lookup"
    /\ op \in TextSingleOps \cup TextAllOps
    /\ \E hs \in HitSeqs, d \in Latencies(op), refused \in BOOLEAN :
        /\ refused => (hs = << >> /\ op \in TextSingleOps)
        /\ clock' = clock + d
        /\ hits' = hs
        /\ IF refused
           THEN /\ sent' = <<Cmd("DOM.getDocument", 0), Cmd("DOM.performSearch", 0),
                             Cmd("DOM.getSearchResults", 0)>>
                /\ qerr' = "Invalid search result range"
                /\ LookupRaises("ProtocolException", "Invalid search result range")
           ELSE LET r == IF op \in TextSingleOps
                         THEN FindElementByText(args, hs)
                         ELSE FindElementsByText(args, hs)
                IN  /\ sent' = r.log
                    /\ qerr' = qerr
                    /\ LookupReturns(r.val)
    /\ UNCHANGED <<op, args, attempts, attemptStart, qdepth, qdoc, nodeAttrs>>
    /\ UNCHANGED <<sessVars, fileVars>>

---------------------------------------------------------------------------
\* The polling lookups.

\* a call starts: loop.time() is read and the first lookup is issued
Begin(o, a) ==
    /\ pc = "idle"
    /\ op' = o
    /\ args' = a
    /\ pc' = "lookup"
    /\ clock' = 0
    /\ item' = None
    /\ ret' = Pending
    /\ attempts' = 1
    /\ attemptStart' = 0
    /\ matched' = FALSE
    /\ hits' = << >>
    /\ qpc' = IF o \in SelectorOps THEN "start" ELSE "off"
    /\ qdepth' = 0
    /\ qdoc' = 0
    /\ qerr' = ""
    /\ sent' = << >>
    /\ UNCHANGED nodeAttrs
    /\ UNCHANGED <<sessVars, fileVars>>

\* the call ends with r
Finish(r) ==
    /\ ret' = r
    /\ pc' = "done"
    /\ UNCHANGED <<attempts, attemptStart, hits, qpc, qdepth, qdoc, qerr, sent>>

\* `await self` and the next lookup of the while loop, issued at time now
Retry(now) ==
    /\ pc' = "lookup"
    /\ attempts' = attempts + 1
    /\ attemptStart' = now
    /\ hits' = << >>
    /\ qpc' = IF op \in SelectorOps THEN "start" ELSE "off"
    /\ qdepth' = 0
    /\ qdoc' = 0
    /\ qerr' = ""
    /\ sent' = << >>
    /\ ret' = ret

\* every lookup looping whatever its timeout
LoopAlways(o, t) == TRUE

\* `if timeout:` guards the loop of select, select_all, find, find_all;
\* wait_for loops without it
LoopEntered(o, t) == o = "wait_for" \/ t # 0

\* the deadline check with `now` left out: loop.time() alone, whose origin
\* lies further back than any timeout
DeadlineNoStart(c, t) == c + MaxTimeout + 1 > t

\* `if loop.time() - now > timeout`
DeadlinePassed(c, t) == c > t

RECURSIVE FilterName(_, _)
\* [item for item in results if item.node.node_name.lower() == node_name.lower()]
FilterName(es, name) ==
    IF es = << >> THEN << >>
    ELSE IF Lower(NodeName(Head(es).id)) = Lower(name)
         THEN <<Head(es)>> \o FilterName(Tail(es), name)
         ELSE FilterName(Tail(es), name)

\* the value returned when the loop is left (or never entered) before the deadline
FinalValue(o, a, v) ==
    IF o = "select_all"
    THEN IF ~Truthy(v) THEN List(<< >>)
         ELSE IF a.node_name # "" THEN List(FilterName(v.elems, a.node_name))
         ELSE v
    ELSE v

\* every lookup raising on timeout
DeadlineRaises(o, s, v) ==
    Raised("ElementWithSelectorNotFoundException", s)

\* every lookup returning None on timeout
DeadlineReturnsNone(o, s, v) ==
    Returned(None)

\* the outcome when the deadline check of the loop fires
DeadlineOutcome(o, s, v) ==
    CASE o \in {"select", "find"} -> Returned(None)
      [] o = "find_all" -> Returned(List(<< >>))
      [] o = "select_all" -> Returned(v)
      [] OTHER -> Raised("ElementWithSelectorNotFoundException", s)

Timeouts == 0..MaxTimeout

\* select(selector, timeout, _node)
CallSelect ==
    \E t \in Timeouts, n \in {0} \cup ScopeNodes :
        Begin("select", [NoArgs EXCEPT !.selector = "css", !.timeout = t, !.node = n])

\* select_all(selector, timeout, node_name, _node)
CallSelectAll ==
    \E t \in Timeouts, n \in {0} \cup ScopeNodes, f \in {"", "span"} :
        Begin("select_all", [NoArgs EXCEPT !.selector = "css", !.timeout = t,
                                           !.node = n, !.node_name = f])

\* query_selector(selector, _node)
CallQuerySelector ==
    \E n \in {0} \cup ScopeNodes :
        Begin("query_selector", [NoArgs EXCEPT !.selector = "css", !.node = n])

\* query_selector_all(selector, _node)
CallQuerySelectorAll ==
    \E n \in {0} \cup ScopeNodes :
        Begin("query_selector_all", [NoArgs EXCEPT !.selector = "css", !.node = n])

\* wait_for(selector, text, timeout): without a selector the body is skipped
\* and the method returns None
CallWaitFor ==
    \E sel \in {"", "css"}, txt \in {"", "go"}, t \in Timeouts :
        LET a == [NoArgs EXCEPT !.selector = sel, !.text = txt, !.timeout = t] IN
        IF sel # ""
        THEN Begin("wait_for", a)
        ELSE /\ pc = "idle"
             /\ op' = "wait_for"
             /\ args' = a
             /\ pc' = "done"
             /\ ret' = Returned(None)
             /\ UNCHANGED <<clock, item, attempts, attemptStart, matched, hits,
                            qpc, qdepth, qdoc, qerr, sent, nodeAttrs>>
             /\ UNCHANGED <<sessVars, fileVars>>

\* Tab.__call__(text, selector, timeout): returns
\* self.wait_for(text, selector, timeout), whose parameters are, in order,
\* selector, text, timeout
CallTab ==
    \E txt \in {"", "go"}, sel \in {"", "css"}, t \in Timeouts :
        LET a == [NoArgs EXCEPT !.selector = txt, !.text = sel, !.timeout = t,
                                !.tab_text = txt, !.tab_selector = sel] IN
        IF a.selector # ""
        THEN Begin("wait_for", a)
        ELSE /\ pc = "idle"
             /\ op' = "wait_for"
             /\ args' = a
             /\ pc' = "done"
             /\ ret' = Returned(None)
             /\ UNCHANGED <<clock, item, attempts, attemptStart, matched, hits,
                            qpc, qdepth, qdoc, qerr, sent, nodeAttrs>>
             /\ UNCHANGED <<sessVars, fileVars>>

\* the tag filters in use
Types == {"", "span", "script"}

\* find(text, best_match, return_enclosing_element, timeout, type, exact_match)
CallFind ==
    \E t \in Timeouts, b \in BOOLEAN, e \in BOOLEAN, ty \in Types, x \in BOOLEAN :
        Begin("find", [NoArgs EXCEPT !.text = "go", !.timeout = t, !.best = b,
                                     !.enclosing = e, !.type = ty, !.exact = x])

\* find_all(text, timeout, type, exact_match)
CallFindAll ==
    \E t \in Timeouts, ty \in Types, x \in BOOLEAN :
        Begin("find_all", [NoArgs EXCEPT !.text = "go", !.timeout = t,
                                         !.type = ty, !.exact = x])

\* find_element_by_text(text, best_match, return_enclosing_element, type, exact_match)
CallFindElementByText ==
    \E b \in BOOLEAN, e \in BOOLEAN, ty \in Types, x \in BOOLEAN :
        Begin("find_element_by_text", [NoArgs EXCEPT !.text = "go", !.best = b,
                                       !.enclosing = e, !.type = ty, !.exact = x])

\* find_elements_by_text(text, tag_hint, type, exact_match)
CallFindElementsByText ==
    \E ty \in Types, x \in BOOLEAN :
        Begin("find_elements_by_text", [NoArgs EXCEPT !.text = "go", !.type = ty, !.exact = x])

\* the first lookup has answered: lines 244-246, 304-306, 869-871
FirstResult ==
    /\ pc = "got"
    /\ attempts = 1
    /\ IF op \in PollOps /\ LoopEntered(op, args.timeout) /\ ~Truthy(item)
       THEN Retry(clock)
       ELSE Finish(Returned(IF op \in PollOps THEN FinalValue(op, args, item) ELSE item))
    /\ UNCHANGED <<op, args, clock, item, matched, nodeAttrs>>
    /\ UNCHANGED <<sessVars, fileVars>>

\* a lookup of the loop has answered: the deadline check, lines 249-250
AfterRetry ==
    /\ pc = "got"
    /\ attempts > 1
    /\ IF DeadlinePassed(clock, args.timeout)
       THEN Finish(DeadlineOutcome(op, args.selector, item))
       ELSE /\ pc' = "sleep"
            /\ UNCHANGED <<ret, attempts, attemptStart, hits, qpc, qdepth, qdoc, qerr, sent>>
    /\ UNCHANGED <<op, args, clock, item, matched, nodeAttrs>>
    /\ UNCHANGED <<sessVars, fileVars>>

\* self.sleep(0.5), then the loop condition `while not item`
Sleep ==
    /\ pc = "sleep"
    /\ clock' = clock + RetryInterval
    /\ IF ~Truthy(item)
       THEN Retry(clock + RetryInterval)
       ELSE Finish(Returned(FinalValue(op, args, item)))
    /\ UNCHANGED <<op, args, item, matched, nodeAttrs>>
    /\ UNCHANGED <<sessVars, fileVars>>

\* the caller has its answer; the tab is ready for the next call
Return ==
    /\ pc = "done"
    /\ op' = "none"
    /\ args' = NoArgs
    /\ pc' = "idle"
    /\ clock' = 0
    /\ item' = None
    /\ ret' = Pending
    /\ attempts' = 0
    /\ attemptStart' = 0
    /\ matched' = FALSE
    /\ hits' = << >>
    /\ qpc' = "off"
    /\ qdepth' = 0
    /\ qdoc' = 0
    /\ qerr' = ""
    /\ sent' = << >>
    /\ UNCHANGED nodeAttrs
    /\ UNCHANGED <<sessVars, fileVars>>

---------------------------------------------------------------------------
\* evaluate and js_dumps.

\* javascript values: a number, undefined, a promise that resolves to a
\* number, a promise that rejects, a thrown exception, a script that does
\* not parse
Num(n) == [t |-> "num", n |-> n]

Undefined == [t |-> "undefined", n |-> 0]

Resolves(n) == [t |-> "promise", n |-> n]

Rejects == [t |-> "rejected", n |-> 0]

Throws == [t |-> "throw", n |-> 0]

Unparsable == [t |-> "syntax", n |-> 0]

\* the values of `expression` in use
Scripts ==
    {"1+1", "return 1+1", "return 0", "return Promise.resolve(5)",
     "return Promise.reject(1)", "throw 1", "return ("}

\* `resp`, line 612: what (() => { SCRIPT })() produces; the expression is
\* the body of a function, which yields a value only through `return`
Resp(e) ==
    CASE e = "1+1" -> Undefined
      [] e = "return 1+1" -> Num(2)
      [] e = "return 0" -> Num(0)
      [] e = "return Promise.resolve(5)" -> Resolves(5)
      [] e = "return Promise.reject(1)" -> Rejects
      [] e = "throw 1" -> Throws
      [] OTHER -> Unparsable

\* JSON.stringify({ "x": v }): the text as its members; a member whose
\* value is undefined is left out
Stringify(v) ==
    IF v.t = "undefined" THEN << >> ELSE <<[key |-> "x", val |-> v.n]>>

\* RemoteObject.value: a string holding JSON text, an empty object, nothing
StrValue(j) == [t |-> "str", json |-> j]

EmptyObject == [t |-> "dict", json |-> << >>]

FilledObject == [t |-> "dict", json |-> <<[key |-> "navigator", val |-> 1]>>]

NoValue == [t |-> "none", json |-> << >>]

\* python truthiness of RemoteObject.value: a JSON text is never the empty string
ValueTruthy(v) == v.t = "str" \/ (v.t = "dict" /\ v.json # << >>)

\* the tuple (remote_object, exception_details) self.send answers with;
\* errors is "" for None
Response(v, e) == [got |-> TRUE, value |-> v, errors |-> e]

\* self.send answered nothing
NoResponse == [got |-> FALSE, value |-> NoValue, errors |-> ""]

\* Runtime.evaluate of the wrapper, lines 611-628
RuntimeEvaluate(e, await, byValue) ==
    LET resp == Resp(e) IN
    CASE resp.t = "syntax" -> Response(NoValue, "SyntaxError")
      [] resp.t = "throw" -> Response(NoValue, "Uncaught 1")
      [] resp.t \in {"promise", "rejected"} ->
            IF ~await
            THEN Response(IF byValue THEN EmptyObject ELSE NoValue, "")
            ELSE IF resp.t = "rejected"
                 THEN Response(NoValue, "Uncaught (in promise) 1")
                 ELSE Response(StrValue(Stringify(Num(resp.n))), "")
      [] OTHER -> Response(StrValue(Stringify(resp)), "")

\* a python number
PyNum(n) == [k |-> "num", elems |-> <<n>>]

\* a python dict from a by-value object
PyDict(v) == [k |-> "dict", elems |-> v.json]

\* the tuple (remote_object, errors)
PyTuple(r) == [k |-> "tuple", elems |-> <<r.value, r.errors>>]

\* the envelope read without its member
GetNothing(j) == None

\* json.loads(...).get("x")
GetX(j) ==
    IF \E i \in DOMAIN j : j[i].key = "x"
    THEN PyNum(j[CHOOSE i \in DOMAIN j : j[i].key = "x"].val)
    ELSE None

\* evaluate with the check of the errors left out
EvaluateUnchecked(r, byValue) ==
    IF byValue
    THEN IF ValueTruthy(r.value) THEN Returned(GetX(r.value.json)) ELSE Returned(None)
    ELSE Returned(PyTuple(r))

\* lines 630-642 of evaluate
EvaluateOutcome(r, byValue) ==
    IF ~r.got THEN Raised("JavascriptSyntaxException", "")
    ELSE IF r.errors # "" THEN Raised("JavascriptException", r.errors)
    ELSE IF byValue
         THEN IF ValueTruthy(r.value) THEN Returned(GetX(r.value.json)) ELSE Returned(None)
         ELSE Returned(PyTuple(r))

\* evaluate(expression, await_promise, return_by_value)
CallEvaluate ==
    \E e \in Scripts, aw \in BOOLEAN, bv \in BOOLEAN :
        Begin("evaluate", [NoArgs EXCEPT !.expression = e, !.await_promise = aw,
                                         !.return_by_value = bv])

\* the wrapped expression is sent and answered, or the send yields nothing
EvaluateReply ==
    /\ pc = "lookup"
    /\ op = "evaluate"
    /\ \E lost \in BOOLEAN :
        LET r == IF lost THEN NoResponse
                 ELSE RuntimeEvaluate(args.expression, args.await_promise,
                                      args.return_by_value)
        IN  /\ hits' = <<r>>
            /\ sent' = <<Cmd("Runtime.evaluate", 0)>>
            /\ ret' = EvaluateOutcome(r, args.return_by_value)
            /\ pc' = "done"
    /\ UNCHANGED <<op, args, clock, item, attempts, attemptStart, matched,
                   qpc, qdepth, qdoc, qerr, nodeAttrs>>
    /\ UNCHANGED <<sessVars, fileVars>>

\* the objects dumped
ObjNames == {"window", "navigator"}

\* what the browser may answer to a serialization strategy
DumpReplies ==
    {Response(FilledObject, ""), Response(EmptyObject, ""), Response(NoValue, ""),
     Response(NoValue, "TypeError"), Response(NoValue, "RangeError"), NoResponse}

\* the second strategy sent whatever the first answered
SecondAlways(details) == TRUE

\* `if exception_details:` after the first strategy, line 801
SecondNeeded(details) == details # ""

\* lines 814-820 of js_dumps; a send that answered nothing cannot be
\* unpacked into (remote_object, exception_details)
DumpOutcome(r, byValue) ==
    IF ~r.got THEN Raised("TypeError", "")
    ELSE IF r.errors # "" THEN Raised("JavascriptException", r.errors)
    ELSE IF byValue
         THEN IF ValueTruthy(r.value) THEN Returned(PyDict(r.value)) ELSE Returned(None)
         ELSE Returned(PyTuple(r))

\* js_dumps(obj_name, return_by_value)
CallJsDumps ==
    \E o \in ObjNames, bv \in BOOLEAN :
        Begin("js_dumps", [NoArgs EXCEPT !.obj_name = o, !.return_by_value = bv])

\* js_code_a is sent and answered, lines 793-801
DumpFirst ==
    /\ pc = "lookup"
    /\ op = "js_dumps"
    /\ sent = << >>
    /\ \E r \in DumpReplies :
        /\ hits' = <<r>>
        /\ sent' = <<Cmd("Runtime.evaluate js_code_a", 0)>>
        /\ IF SecondNeeded(r.errors)
           THEN UNCHANGED <<pc, ret>>
           ELSE /\ pc' = "done"
                /\ ret' = DumpOutcome(r, args.return_by_value)
    /\ UNCHANGED <<op, args, clock, item, attempts, attemptStart, matched,
                   qpc, qdepth, qdoc, qerr, nodeAttrs>>
    /\ UNCHANGED <<sessVars, fileVars>>

\* js_code_b is sent and answered, lines 805-820
DumpSecond ==
    /\ pc = "lookup"
    /\ op = "js_dumps"
    /\ Len(sent) = 1
    /\ \E r \in DumpReplies :
        /\ hits' = Append(hits, r)
        /\ sent' = Append(sent, Cmd("Runtime.evaluate js_code_b", 0))
        /\ pc' = "done"
        /\ ret' = DumpOutcome(r, args.return_by_value)
    /\ UNCHANGED <<op, args, clock, item, attempts, attemptStart, matched,
                   qpc, qdepth, qdoc, qerr, nodeAttrs>>
    /\ UNCHANGED <<sessVars, fileVars>>

---------------------------------------------------------------------------
\* cdp.dom_storage: StorageId, Item and the DOMStorage commands.  A command
\* is a generator: started, it yields its request; resumed with the reply,
\* it ends with its result.

\* JSON values: null, a boolean, a string, an object (a set of members)
JNull == [t |-> "null", b |-> FALSE, s |-> "", d |-> {}]

JBool(b) == [t |-> "bool", b |-> b, s |-> "", d |-> {}]

JStr(x) == [t |-> "str", b |-> FALSE, s |-> x, d |-> {}]

JDict(d) == [t |-> "dict", b |-> FALSE, s |-> "", d |-> d]

\* a member of a JSON object
Pair(k, v) == [key |-> k, val |-> v]

\* the keys of a JSON object
Keys(d) == {p.key : p \in d}

\* an Optional[str]: << >> for None, <<x>> for the string x
Optionals == {<< >>, <<"">>, <<"https://a.test">>}

\* the StorageId values in use
StorageIds ==
    [is_local_storage : BOOLEAN, security_origin : Optionals, storage_key : Optionals]

\* a to_json that writes every field, None as null
StorageIdToJsonAll(sid) ==
    {Pair("isLocalStorage", JBool(sid.is_local_storage)),
     Pair("securityOrigin", IF sid.security_origin # << >>
                            THEN JStr(sid.security_origin[1]) ELSE JNull),
     Pair("storageKey", IF sid.storage_key # << >>
                        THEN JStr(sid.storage_key[1]) ELSE JNull)}

\* StorageId.to_json
StorageIdToJson(sid) ==
    {Pair("isLocalStorage", JBool(sid.is_local_storage))}
        \cup (IF sid.security_origin # << >>
              THEN {Pair("securityOrigin", JStr(sid.security_origin[1]))} ELSE {})
        \cup (IF sid.storage_key # << >>
              THEN {Pair("storageKey", JStr(sid.storage_key[1]))} ELSE {})

\* the DOMStorage commands
StorageMethods ==
    {"DOMStorage.clear", "DOMStorage.disable", "DOMStorage.enable",
     "DOMStorage.getDOMStorageItems", "DOMStorage.removeDOMStorageItem",
     "DOMStorage.setDOMStorageItem"}

\* the commands that take no parameter
BareMethods == {"DOMStorage.disable", "DOMStorage.enable"}

\* `params` of a command
Params(m, a) ==
    {Pair("storageId", JDict(StorageIdToJson(a.storage_id)))}
        \cup (IF m \in {"DOMStorage.removeDOMStorageItem", "DOMStorage.setDOMStorageItem"}
              THEN {Pair("key", JStr(a.key))} ELSE {})
        \cup (IF m = "DOMStorage.setDOMStorageItem"
              THEN {Pair("value", JStr(a.value))} ELSE {})

\* `cmd_dict` of a command: the request it yields
CmdDict(m, a) ==
    IF m \in BareMethods
    THEN {Pair("method", JStr(m))}
    ELSE {Pair("method", JStr(m)), Pair("params", JDict(Params(m, a)))}

\* Item.from_json
ItemFromJson(i) == [item |-> i]

\* the entries decoded last to first
DecodeReversed(entries) ==
    [i \in 1..Len(entries) |-> ItemFromJson(entries[Len(entries) + 1 - i])]

\* [Item.from_json(i) for i in json["entries"]]
DecodeEntries(entries) ==
    [i \in 1..Len(entries) |-> ItemFromJson(entries[i])]

\* what the generator ends with, resumed with the reply
StorageResult(m, reply) ==
    IF m = "DOMStorage.getDOMStorageItems"
    THEN [k |-> "items", elems |-> DecodeEntries(reply.entries)]
    ELSE None

\* the [key, value] pairs a reply may list
EntryValues == {<<"a", "1">>, <<"b", "2">>}

\* the replies: the result payload of DOMStorage.getDOMStorageItems, the
\* empty result of the other commands
StorageReplies(m) ==
    IF m = "DOMStorage.getDOMStorageItems"
    THEN {[entries |-> e] : e \in UNION {[1..k -> EntryValues] : k \in 0..MaxEntries}}
    ELSE {[entries |-> << >>]}

\* the generator is created and started: it runs to its yield
StorageStart ==
    /\ pc = "idle"
    /\ \E m \in StorageMethods, sid \in StorageIds :
        LET usesId == m \notin BareMethods
            a == [NoArgs EXCEPT
                    !.storage_id = IF usesId THEN sid ELSE NoArgs.storage_id,
                    !.key = IF m \in {"DOMStorage.removeDOMStorageItem",
                                      "DOMStorage.setDOMStorageItem"} THEN "k" ELSE "",
                    !.value = IF m = "DOMStorage.setDOMStorageItem" THEN "v" ELSE ""]
        IN  /\ op' = m
            /\ args' = a
            /\ sent' = <<CmdDict(m, a)>>
    /\ pc' = "yielded"
    /\ ret' = Pending
    /\ hits' = << >>
    /\ UNCHANGED <<clock, item, attempts, attemptStart, matched,
                   qpc, qdepth, qdoc, qerr, nodeAttrs>>
    /\ UNCHANGED <<sessVars, fileVars>>

\* the generator is resumed with the reply and ends
StorageResume ==
    /\ pc = "yielded"
    /\ op \in StorageMethods
    /\ \E reply \in StorageReplies(op) :
        /\ hits' = <<reply>>
        /\ ret' = Returned(StorageResult(op, reply))
    /\ pc' = "done"
    /\ UNCHANGED <<op, args, clock, item, attempts, attemptStart, matched,
                   qpc, qdepth, qdoc, qerr, sent, nodeAttrs>>
    /\ UNCHANGED <<sessVars, fileVars>>

\* the DOMStorage events and the command each follows
StorageEvents ==
    [m \in {"DOMStorage.clear", "DOMStorage.removeDOMStorageItem",
            "DOMStorage.setDOMStorageItem"} |->
        IF m = "DOMStorage.clear" THEN "DOMStorage.domStorageItemsCleared"
        ELSE IF m = "DOMStorage.removeDOMStorageItem"
             THEN "DOMStorage.domStorageItemRemoved"
             ELSE "DOMStorage.domStorageItemAdded"]

\* json.get(k, None)
Get(d, k) == IF k \in Keys(d) THEN (CHOOSE p \in d : p.key = k).val ELSE JNull

\* bool(v) of a JSON value
PyBool(v) ==
    IF v.t = "bool" THEN v.b
    ELSE IF v.t = "str" THEN v.s # ""
         ELSE IF v.t = "dict" THEN v.d # {} ELSE FALSE

\* str(v) of a JSON value
PyStr(v) ==
    IF v.t = "str" THEN v.s
    ELSE IF v.t = "bool" THEN (IF v.b THEN "True" ELSE "False")
         ELSE IF v.t = "null" THEN "None" ELSE "{}"

\* a from_json that takes an optional member only when it is truthy
StorageIdFromJsonTruthy(d) ==
    [is_local_storage |-> PyBool(Get(d, "isLocalStorage")),
     security_origin |-> IF PyBool(Get(d, "securityOrigin"))
                         THEN <<PyStr(Get(d, "securityOrigin"))>> ELSE << >>,
     storage_key |-> IF PyBool(Get(d, "storageKey"))
                     THEN <<Get(d, "storageKey").s>> ELSE << >>]

\* StorageId.from_json
StorageIdFromJson(d) ==
    [is_local_storage |-> PyBool(Get(d, "isLocalStorage")),
     security_origin |-> IF Get(d, "securityOrigin") # JNull
                         THEN <<PyStr(Get(d, "securityOrigin"))>> ELSE << >>,
     storage_key |-> IF Get(d, "storageKey") # JNull
                     THEN <<Get(d, "storageKey").s>> ELSE << >>]

\* the from_json of the event classes: the storage id and the key
EventFromJson(d) ==
    [storage_id |-> StorageIdFromJson(Get(d, "storageId").d),
     key |-> IF "key" \in Keys(d) THEN PyStr(Get(d, "key")) ELSE ""]

\* JSON object d with the optional members it lacks written as null
WithNulls(d) ==
    d \cup {Pair(k, JNull) : k \in {"securityOrigin", "storageKey"} \ Keys(d)}

\* the JSON of the event that follows command m with arguments a: it names
\* the storage of the command, unset members left out or null
EventJsons(m, a) ==
    {{Pair("storageId", JDict(j))}
        \cup (IF m = "DOMStorage.clear" THEN {} ELSE {Pair("key", JStr(a.key))})
     : j \in {StorageIdToJson(a.storage_id), WithNulls(StorageIdToJson(a.storage_id))}}

\* the event that follows a finished command is parsed
StorageEvent ==
    /\ pc = "done"
    /\ op \in DOMAIN StorageEvents
    /\ item = None
    /\ \E j \in EventJsons(op, args) :
        item' = [k |-> "event",
                 elems |-> <<[name |-> StorageEvents[op], json |-> j,
                              event |-> EventFromJson(j)]>>]
    /\ UNCHANGED <<op, args, pc, clock, ret, attempts, attemptStart, matched,
                   hits, qpc, qdepth, qdoc, qerr, sent, nodeAttrs>>
    /\ UNCHANGED <<sessVars, fileVars>>

---------------------------------------------------------------------------
\* Downloads: Tab.set_download_path and Tab.download_file, cut at their
\* awaits.

\* what get_download_directory() returns
DefaultDirectory == "/downloads"

\* the paths a caller passes to set_download_path
Paths == {"", "/tmp/a"}

\* cdp.browser.set_download_behavior(behavior="allow", download_path=p)
SetDownloadBehavior(p) ==
    [cmd |-> "Browser.setDownloadBehavior", behavior |-> "allow", download_path |-> p]

\* a tab that takes no behaviour for recorded
NeverRecorded(b) == FALSE

\* truthiness of self._download_behavior: None is falsy, the list truthy
HasBehavior(b) == Len(b) > 0

\* the record of a call: the behaviour recorded when it began, whether it
\* issued the command (and with which path), whether the command succeeded,
\* the behaviour recorded after the command
DownloadCall(o, p, i) ==
    [op |-> o, path |-> p, recorded |-> download_behavior, issued |-> i,
     ok |-> FALSE, after |-> download_behavior]

\* set_download_path(p) up to its await of send
CallSetDownloadPath ==
    /\ pc = "idle"
    /\ Len(downloadCalls) < MaxDownloads
    /\ \E p \in Paths :
        /\ args' = [NoArgs EXCEPT !.path = p]
        /\ sent' = <<SetDownloadBehavior(p)>>
        /\ downloadCalls' = Append(downloadCalls, DownloadCall("set_download_path", p, TRUE))
    /\ op' = "set_download_path"
    /\ pc' = "setting"
    /\ ret' = Pending
    /\ UNCHANGED <<clock, item, attempts, attemptStart, matched, hits,
                   qpc, qdepth, qdoc, qerr, nodeAttrs>>
    /\ UNCHANGED <<download_behavior, browserDownload>>
    /\ UNCHANGED sessVars

\* download_file up to its first await: of set_download_path's send when
\* no behaviour is recorded, of the body query otherwise
CallDownloadFile ==
    /\ pc = "idle"
    /\ Len(downloadCalls) < MaxDownloads
    /\ op' = "download_file"
    /\ IF ~HasBehavior(download_behavior)
       THEN /\ args' = [NoArgs EXCEPT !.path = DefaultDirectory]
            /\ sent' = <<SetDownloadBehavior(DefaultDirectory)>>
            /\ downloadCalls' = Append(downloadCalls,
                                       DownloadCall("download_file", DefaultDirectory, TRUE))
            /\ pc' = "setting"
       ELSE /\ args' = NoArgs
            /\ sent' = << >>
            /\ downloadCalls' = Append(downloadCalls, DownloadCall("download_file", "", FALSE))
            /\ pc' = "body"
    /\ ret' = Pending
    /\ UNCHANGED <<clock, item, attempts, attemptStart, matched, hits,
                   qpc, qdepth, qdoc, qerr, nodeAttrs>>
    /\ UNCHANGED <<download_behavior, browserDownload>>
    /\ UNCHANGED sessVars

\* the send of set_download_path returns, and the behaviour is recorded, or
\* it raises and nothing is recorded
SetDownloadReply ==
    /\ pc = "setting"
    /\ \E ok \in BOOLEAN :
        IF ok
        THEN /\ download_behavior' = <<"allow", args.path>>
             /\ browserDownload' = <<"allow", args.path>>
             /\ downloadCalls' =
                    [downloadCalls EXCEPT ![Len(downloadCalls)].ok = TRUE,
                                          ![Len(downloadCalls)].after = <<"allow", args.path>>]
             /\ pc' = IF op = "download_file" THEN "body" ELSE "done"
             /\ ret' = IF op = "download_file" THEN Pending ELSE Returned(None)
        ELSE /\ pc' = "done"
             /\ ret' = Raised("ProtocolException", "")
             /\ UNCHANGED <<download_behavior, browserDownload, downloadCalls>>
    /\ UNCHANGED <<op, args, clock, item, attempts, attemptStart, matched, hits,
                   qpc, qdepth, qdoc, qerr, sent, nodeAttrs>>
    /\ UNCHANGED sessVars

\* how the rest of download_file ends: the body is found and the function
\* called, query_selector_all("body") is empty, or a send raises
BodyOutcomes == {"called", "no body", "protocol error"}

\* the rest of download_file: the body query, its update, call_function_on
DownloadBody ==
    /\ pc = "body"
    /\ \E o \in BodyOutcomes :
        /\ sent' = sent \o (IF o = "called"
                            THEN <<Cmd("DOM.querySelectorAll", 0), Cmd("update", 0),
                                   Cmd("Runtime.callFunctionOn", 0)>>
                            ELSE <<Cmd("DOM.querySelectorAll", 0)>>)
        /\ ret' = IF o = "called" THEN Returned(None)
                  ELSE IF o = "no body" THEN Raised("IndexError", "")
                       ELSE Raised("ProtocolException", "")
    /\ pc' = "done"
    /\ UNCHANGED <<op, args, clock, item, attempts, attemptStart, matched, hits,
                   qpc, qdepth, qdoc, qerr, nodeAttrs>>
    /\ UNCHANGED fileVars
    /\ UNCHANGED sessVars

---------------------------------------------------------------------------
\* The protocol session (Connection, the base class of Tab): send, the
\* receive loop, the listener registry, close.

\* the listeners that subscribe
ListenerIds == {1, 2}

\* the event names of the registry
EventNames == DOMAIN listeners

\* a method name no event class is registered for
UnknownMethod == "Unknown.event"

\* every request given the same id
ReusedId(n) == 1

\* the id of the next request: ids are monotonic
NewId(n) == n + 1

\* the pending-call table with call c registered under id
Register(p, id, c) == {e \in p : e.id # id} \cup {[id |-> id, call |-> c]}

\* a reply to the request id, success or error
Reply(id, ok) == [id |-> id, method |-> "", ok |-> ok, seq |-> 0]

\* the occurrence seq of event m: an unsolicited message, without id
Event(m, seq) == [id |-> 0, method |-> m, ok |-> TRUE, seq |-> seq]

\* send(command): the request gets an id, a PendingCall is registered and
\* the request written; on a closed session the call fails at once
Send ==
    /\ Len(calls) < MaxCalls
    /\ IF closed
       THEN /\ calls' = Append(calls, [id |-> 0, outcome |-> "closed", n |-> 1,
                                       by |-> 0, late |-> TRUE])
            /\ UNCHANGED <<nextId, pending, outbound>>
       ELSE /\ nextId' = NewId(nextId)
            /\ pending' = Register(pending, NewId(nextId), Len(calls) + 1)
            /\ outbound' = outbound \cup {NewId(nextId)}
            /\ calls' = Append(calls, [id |-> NewId(nextId), outcome |-> "pending",
                                       n |-> 0, by |-> 0, late |-> FALSE])
    /\ UNCHANGED <<inbound, listeners, delivered, dispatched, dropped, emitted,
                   running, closed>>
    /\ UNCHANGED <<tabVars, fileVars>>

\* the browser answers one of the requests it holds, in any order
Answer ==
    /\ ~closed
    /\ \E id \in outbound, ok \in BOOLEAN :
        /\ outbound' = outbound \ {id}
        /\ inbound' = inbound \cup {Reply(id, ok)}
    /\ UNCHANGED <<nextId, pending, calls, listeners, delivered, dispatched,
                   dropped, emitted, running, closed>>
    /\ UNCHANGED <<tabVars, fileVars>>

\* the calls after the reply m resolved the PendingCall of its id
Resolve(cs, p, m) ==
    [c \in DOMAIN cs |->
        IF [id |-> m.id, call |-> c] \in p
        THEN [cs[c] EXCEPT !.outcome = IF m.ok THEN "result" ELSE "error",
                           !.n = @ + 1, !.by = m.id]
        ELSE cs[c]]

\* receive loop: a message with an id resolves (or fails) the matching
\* PendingCall and removes it
ReceiveReply ==
    /\ running
    /\ \E m \in inbound :
        /\ m.id # 0
        /\ inbound' = inbound \ {m}
        /\ calls' = Resolve(calls, pending, m)
        /\ pending' = {e \in pending : e.id # m.id}
    /\ UNCHANGED <<nextId, outbound, listeners, delivered, dispatched, dropped,
                   emitted, running, closed>>
    /\ UNCHANGED <<tabVars, fileVars>>

\* `s` without its element x
Without(s, x) ==
    LET Other(y) == y # x IN SelectSeq(s, Other)

\* subscribe(event-name, listener)
Subscribe ==
    /\ \E l \in ListenerIds, m \in EventNames :
        /\ \A i \in DOMAIN listeners[m] : listeners[m][i] # l
        /\ listeners' = [listeners EXCEPT ![m] = Append(@, l)]
    /\ UNCHANGED <<nextId, pending, outbound, inbound, calls, delivered, dispatched,
                   dropped, emitted, running, closed>>
    /\ UNCHANGED <<tabVars, fileVars>>

\* unsubscribe(event-name, listener)
Unsubscribe ==
    /\ \E m \in EventNames :
        \E i \in DOMAIN listeners[m] :
            listeners' = [listeners EXCEPT ![m] = Without(@, listeners[m][i])]
    /\ UNCHANGED <<nextId, pending, outbound, inbound, calls, delivered, dispatched,
                   dropped, emitted, running, closed>>
    /\ UNCHANGED <<tabVars, fileVars>>

\* the browser emits an event
Emit ==
    /\ ~closed
    /\ emitted < MaxEvents
    /\ \E m \in EventNames \cup {UnknownMethod} :
        inbound' = inbound \cup {Event(m, emitted + 1)}
    /\ emitted' = emitted + 1
    /\ UNCHANGED <<nextId, pending, outbound, calls, listeners, delivered,
                   dispatched, dropped, running, closed>>
    /\ UNCHANGED <<tabVars, fileVars>>

\* the event handed to the first listener only
DispatchFirst(ls, m) ==
    [i \in 1..(IF ls = << >> THEN 0 ELSE 1) |->
        [listener |-> ls[i], method |-> m.method, seq |-> m.seq]]

\* the invocations one event occurrence causes: every listener of its
\* name, in subscription order
Dispatch(ls, m) ==
    [i \in 1..Len(ls) |-> [listener |-> ls[i], method |-> m.method, seq |-> m.seq]]

\* receive loop: a message without id whose method is registered is handed
\* to the listeners of that name
ReceiveEvent ==
    /\ running
    /\ \E m \in inbound :
        /\ m.id = 0
        /\ m.method \in EventNames
        /\ inbound' = inbound \ {m}
        /\ delivered' = delivered \o Dispatch(listeners[m.method], m)
        /\ dispatched' = Append(dispatched, [method |-> m.method, seq |-> m.seq,
                                             to |-> listeners[m.method]])
    /\ UNCHANGED <<nextId, pending, outbound, calls, listeners, dropped, emitted,
                   running, closed>>
    /\ UNCHANGED <<tabVars, fileVars>>

\* receive loop: a message without id whose method is not registered is dropped
ReceiveUnknown ==
    /\ running
    /\ \E m \in inbound :
        /\ m.id = 0
        /\ m.method \notin EventNames
        /\ inbound' = inbound \ {m}
    /\ dropped' = dropped + 1
    /\ UNCHANGED <<nextId, pending, outbound, calls, listeners, delivered,
                   dispatched, emitted, running, closed>>
    /\ UNCHANGED <<tabVars, fileVars>>

\* a close that leaves the pending calls as they are
FailNothing(cs, p) == cs

\* the calls after every PendingCall failed with the connection-closed error
FailPending(cs, p) ==
    [c \in DOMAIN cs |->
        IF \E e \in p : e.call = c
        THEN [cs[c] EXCEPT !.outcome = "closed", !.n = @ + 1]
        ELSE cs[c]]

\* close: the pending calls fail, the receive loop stops
Close ==
    /\ ~closed
    /\ closed' = TRUE
    /\ running' = FALSE
    /\ calls' = FailPending(calls, pending)
    /\ pending' = {}
    /\ UNCHANGED <<nextId, outbound, inbound, listeners, delivered, dispatched,
                   dropped, emitted>>
    /\ UNCHANGED <<tabVars, fileVars>>

Next ==
    \/ CallSelect
    \/ CallSelectAll
    \/ CallQuerySelector
    \/ CallQuerySelectorAll
    \/ CallWaitFor
    \/ CallFind
    \/ CallFindAll
    \/ CallFindElementByText
    \/ CallFindElementsByText
    \/ QStart
    \/ QReply
    \/ QUpdate
    \/ QDisable
    \/ TextSearch
    \/ FirstResult
    \/ AfterRetry
    \/ Sleep
    \/ Return
    \/ CallEvaluate
    \/ EvaluateReply
    \/ CallJsDumps
    \/ DumpFirst
    \/ DumpSecond
    \/ CallTab
    \/ StorageStart
    \/ StorageResume
    \/ StorageEvent
    \/ CallSetDownloadPath
    \/ CallDownloadFile
    \/ SetDownloadReply
    \/ DownloadBody
    \/ Send
    \/ Answer
    \/ ReceiveReply
    \/ Subscribe
    \/ Unsubscribe
    \/ Emit
    \/ ReceiveEvent
    \/ ReceiveUnknown
    \/ Close

\* every method, call after call
Spec == Init /\ [][Next]_vars

\* query_selector / query_selector_all called directly, call after call
NextQuery ==
    \/ CallQuerySelector
    \/ CallQuerySelectorAll
    \/ QStart
    \/ QReply
    \/ QUpdate
    \/ QDisable
    \/ FirstResult
    \/ Return

SpecQuery == Init /\ [][NextQuery]_vars

\* one call of a polling lookup on a fresh tab
NextPoll ==
    \/ CallSelect
    \/ CallSelectAll
    \/ CallWaitFor
    \/ CallFind
    \/ CallFindAll
    \/ QStart
    \/ QReply
    \/ QUpdate
    \/ QDisable
    \/ TextSearch
    \/ FirstResult
    \/ AfterRetry
    \/ Sleep

SpecPoll == Init /\ [][NextPoll]_vars

\* find_element_by_text / find_elements_by_text called directly, call after call
NextText ==
    \/ CallFindElementByText
    \/ CallFindElementsByText
    \/ TextSearch
    \/ FirstResult
    \/ Return

SpecText == Init /\ [][NextText]_vars

\* evaluate and js_dumps, call after call
NextScript ==
    \/ CallEvaluate
    \/ EvaluateReply
    \/ CallJsDumps
    \/ DumpFirst
    \/ DumpSecond
    \/ Return

SpecScript == Init /\ [][NextScript]_vars

\* one call of the tab object on a fresh tab
NextCall ==
    \/ CallTab
    \/ QStart
    \/ QReply
    \/ QDisable
    \/ FirstResult
    \/ AfterRetry
    \/ Sleep

SpecCall == Init /\ [][NextCall]_vars

\* the DOMStorage commands, one after the other
NextStorage ==
    \/ StorageStart
    \/ StorageResume
    \/ Return

SpecStorage == Init /\ [][NextStorage]_vars

\* the DOMStorage commands and the events that follow them
NextStorageEvent ==
    \/ StorageStart
    \/ StorageResume
    \/ StorageEvent
    \/ Return

SpecStorageEvent == Init /\ [][NextStorageEvent]_vars

\* set_download_path and download_file, call after call
NextDownload ==
    \/ CallSetDownloadPath
    \/ CallDownloadFile
    \/ SetDownloadReply
    \/ DownloadBody
    \/ Return

SpecDownload == Init /\ [][NextDownload]_vars

\* commands sent on one session, answered in any order, and its close
NextSession ==
    \/ Send
    \/ Answer
    \/ ReceiveReply
    \/ Close

SpecSession == Init /\ [][NextSession]_vars

\* events emitted to the listeners of one session
NextEvents ==
    \/ Subscribe
    \/ Unsubscribe
    \/ Emit
    \/ ReceiveEvent
    \/ ReceiveUnknown

SpecEvents == Init /\ [][NextEvents]_vars

---------------------------------------------------------------------------
\* Properties.

\* the direct selector queries
QueryOps == {"query_selector", "query_selector_all"}

\* how many entries of the attempt's log are command c
Count(c) == Cardinality({i \in DOMAIN sent : sent[i].cmd = c})

\* how many selector commands the attempt has sent
Queries == Count("DOM.querySelector") + Count("DOM.querySelectorAll")

NotFound == "ElementWithSelectorNotFoundException"

\* C1: a polling lookup one of whose attempts found a match returns a match,
\* never the empty / null / raised timeout outcome (a select_all with a tag
\* filter aside, whose filter may empty the match).
C1_FoundIsReturned ==
    (pc = "done" /\ op \in PollOps /\ matched /\ args.node_name = "")
        => (ret.kind = "return" /\ Truthy(ret.val))

C5_WaitForTextRaises ==
    (pc = "done" /\ op = "wait_for" /\ args.selector = "" /\ args.text # "")
        => (ret.kind = "raise" /\ ret.exc = NotFound)

\* C6: a node-scoped query refreshes its node at most once and sends its
\* selector command at most twice.
C6_AtMostOneRefresh ==
    (op \in QueryOps /\ args.node # 0)
        => (Count("update") <= 1 /\ Queries <= 2)

\* C7: when the retry after the refresh fails with "could not find node"
\* too (a second refresh shows it), the caller gets the ProtocolException.
C7_SecondFailurePropagates ==
    (pc = "done" /\ op \in QueryOps /\ args.node # 0 /\ Count("update") >= 2)
        => (ret.kind = "raise" /\ ret.exc = "ProtocolException"
            /\ CouldNotFindNode(ret.msg))

\* C8: a node-scoped query whose first attempt failed with "could not find
\* node" has refreshed the node exactly once, before a retry that repeats
\* the first command, and returns what the retry found.
C8_RefreshOnceThenRetry ==
    (pc = "done" /\ op \in QueryOps /\ args.node # 0 /\ Count("update") >= 1)
        => /\ Count("update") = 1
           /\ Len(sent) = 3
           /\ sent[2].cmd = "update"
           /\ sent[3] = sent[1]
           /\ ret = Returned(QueryValue(op, qdoc, hits))

\* C9: a ProtocolException whose message is not "could not find node",
\* answered to a selector query, is raised to the caller.
C9_ProtocolErrorSurfaced ==
    (pc = "done" /\ op \in QueryOps /\ qerr # "" /\ ~CouldNotFindNode(qerr))
        => ret = Raised("ProtocolException", qerr)

\* C10: find resolves a text-node hit (one whose parent the snapshot
\* records) to its parent element when return_enclosing_element is true and
\* to the text node itself when it is false.
C10_EnclosingFlagDecides ==
    (pc = "done" /\ op = "find" /\ ret.kind = "return" /\ ret.val.k = "elem"
        /\ NodeType(ret.val.elems[1].hit) = 3 /\ ParentId(ret.val.elems[1].hit) # 0)
        => ret.val.elems[1].id = (IF args.enclosing
                                  THEN ParentId(ret.val.elems[1].hit)
                                  ELSE ret.val.elems[1].hit)

\* the tag test of checktextnodeandappend: the filter when one is given,
\* the banned set otherwise
Keeps(type, n) == IF type # "" THEN IsSameType(n, type) ELSE ~IsBanned(n)

\* the text-search lookups that poll
FindOps == {"find", "find_all"}

C13_FilterOnEveryPath ==
    (pc = "done" /\ op = "select_all" /\ args.node_name # "" /\ ret.kind = "return")
        => \A i \in DOMAIN ret.val.elems :
               Lower(NodeName(ret.val.elems[i].id)) = Lower(args.node_name)

\* C14: every attempt of an unscoped select sends DOM.getDocument first and
\* then DOM.querySelector on the node id of the root it just fetched, and
\* the element it yields lies in the tree fetched by that attempt.
C14_FreshDocumentPerAttempt ==
    (pc = "got" /\ op = "select" /\ args.node = 0)
        => /\ Len(sent) = 2
           /\ sent[1].cmd = "DOM.getDocument"
           /\ sent[2] = [cmd |-> "DOM.querySelector", node |-> 1, selector |-> args.selector]
           /\ qdoc = 1
           /\ item.k = "elem" => InTree(1, item.elems[1].id)

\* C14 witness: a retry of an unscoped select resolved an element
C14_Witness ==
    /\ pc = "got"
    /\ op = "select"
    /\ args.node = 0
    /\ attempts >= 2
    /\ item.k = "elem"

\* C15: a polling lookup that ends on a retry later than timeout + one
\* retry interval (so the retry completed after the deadline) returns its
\* empty / null outcome, nothing that retry found.
C15_LateResultDiscarded ==
    (pc = "done" /\ op \in {"select", "select_all", "find", "find_all"}
        /\ attempts > 1 /\ clock > args.timeout + RetryInterval /\ ret.kind = "return")
        => ~Truthy(ret.val)

\* the value the caller's javascript denotes: "1+1" read as an expression
Produces(e) == IF e = "1+1" THEN Num(2) ELSE Resp(e)

\* evaluate has its reply, which reports no exception
EvaluateAnswered ==
    /\ pc = "done"
    /\ op = "evaluate"
    /\ hits[1].got
    /\ hits[1].errors = ""

\* C16 as stated: evaluate returns the value of a synchronous expression
\* (evaluate("1+1") = 2) and, with await_promise, the value a promise
\* resolves to.
C16_ExpressionValueReturned ==
    EvaluateAnswered
        => LET v == Produces(args.expression) IN
           /\ v.t = "num" => ret = Returned(PyNum(v.n))
           /\ (v.t = "promise" /\ args.await_promise) => ret = Returned(PyNum(v.n))

\* C16 amended: the expression is run as the body of a function; with
\* return_by_value, a body that returns v makes evaluate return v, a body
\* that returns a promise resolving to v makes it return v under
\* await_promise, and a body without return makes it return None; without
\* return_by_value the tuple (remote_object, errors) is returned undecoded.
C16_ReturnedValueDecoded ==
    EvaluateAnswered
        => LET v == Resp(args.expression) IN
           IF args.return_by_value
           THEN /\ v.t = "num" => ret = Returned(PyNum(v.n))
                /\ (v.t = "promise" /\ args.await_promise) => ret = Returned(PyNum(v.n))
                /\ v.t = "undefined" => ret = Returned(None)
           ELSE ret = Returned(PyTuple(hits[1]))

\* C16 witness: a promise resolving to 5 was awaited and 5 returned
C16_Witness ==
    /\ EvaluateAnswered
    /\ args.expression = "return Promise.resolve(5)"
    /\ args.await_promise
    /\ args.return_by_value
    /\ ret = Returned(PyNum(5))

\* C17: evaluate raises JavascriptSyntaxException exactly when the send
\* yields no response, raises JavascriptException with the reply's
\* exception details whenever the reply reports an exception, and returns
\* no value in either case.
C17_EvaluateErrors ==
    (pc = "done" /\ op = "evaluate")
        => /\ (ret.exc = "JavascriptSyntaxException") <=> ~hits[1].got
           /\ (hits[1].got /\ hits[1].errors # "")
                  => ret = Raised("JavascriptException", hits[1].errors)
           /\ (~hits[1].got \/ hits[1].errors # "") => ret.kind = "raise"

\* C17 witness: a script that threw made evaluate raise JavascriptException
C17_Witness ==
    /\ pc = "done"
    /\ op = "evaluate"
    /\ args.expression = "throw 1"
    /\ hits[1].got
    /\ ret = Raised("JavascriptException", "Uncaught 1")

\* C18: js_dumps sends the first strategy first, sends the second one if
\* and only if the first reply reports an exception, and raises
\* JavascriptException if and only if the last reply received reports one.
C18_SecondStrategyOnException ==
    (pc = "done" /\ op = "js_dumps")
        => /\ sent[1].cmd = "Runtime.evaluate js_code_a"
           /\ Len(sent) <= 2
           /\ Len(sent) = 2 <=> hits[1].errors # ""
           /\ Len(sent) = 2 => sent[2].cmd = "Runtime.evaluate js_code_b"
           /\ Len(hits) = Len(sent)
           /\ (ret.exc = "JavascriptException") <=> hits[Len(hits)].errors # ""
           /\ ret.exc = "JavascriptException"
                  => ret = Raised("JavascriptException", hits[Len(hits)].errors)
           /\ (hits[Len(hits)].got /\ hits[Len(hits)].errors = "") => ret.kind = "return"

\* C18 witness: the first strategy reported an exception, the second one
\* answered an object, and js_dumps returned it
C18_Witness ==
    /\ pc = "done"
    /\ op = "js_dumps"
    /\ Len(sent) = 2
    /\ hits[1].errors # ""
    /\ ret = Returned(PyDict(FilledObject))

\* len() of the texts in use
TextLen(s) ==
    CASE s = "go" -> 2
      [] s = "going" -> 5
      [] OTHER -> 0

\* how far the length of the text of node n is from the length of the query
LengthGap(n) ==
    IF TextLen(ElemText(n)) >= TextLen(args.text)
    THEN TextLen(ElemText(n)) - TextLen(args.text)
    ELSE TextLen(args.text) - TextLen(ElemText(n))

\* the candidates of a search: every hit that passes the tag and text tests
Candidates == FindElementsByText(args, hits).val.elems

\* C19: with best_match, the element find returns is, among the candidates
\* of the search, one whose text length is closest to the length of the
\* query.
C19_BestMatchIsClosest ==
    (pc = "done" /\ op = "find" /\ args.best /\ ret.kind = "return" /\ ret.val.k = "elem")
        => \A i \in DOMAIN Candidates :
               LengthGap(ret.val.elems[1].id) <= LengthGap(Candidates[i].id)

\* C20: calling the tab uses the value passed as selector as the CSS
\* selector of the wait and the value passed as text as its text.
C20_CallDispatches ==
    (op = "wait_for" /\ (args.tab_text # "" \/ args.tab_selector # ""))
        => /\ args.tab_selector # "" => args.selector = args.tab_selector
           /\ args.tab_text # "" => args.text = args.tab_text

\* the object under "storageId" in the params of the request
SentStorageId ==
    LET params == (CHOOSE p \in sent[1] : p.key = "params").val.d
    IN  (CHOOSE p \in params : p.key = "storageId").val.d

\* some member of object d, or of an object it holds, is null
HasNull(d) ==
    \E p \in d : p.val.t = "null" \/ \E q \in p.val.d : q.val.t = "null"

\* C21: the request of a DOMStorage command leaves unset optional fields
\* out: the storageId object always has isLocalStorage, has securityOrigin
\* / storageKey exactly when the field is not None (with the field's
\* value), no member is null, and DOMStorage.enable / disable have no
\* params member.
C21_UnsetFieldsOmitted ==
    (pc \in {"yielded", "done"} /\ op \in StorageMethods)
        => /\ Pair("method", JStr(op)) \in sent[1]
           /\ ~HasNull(sent[1])
           /\ IF op \in BareMethods
              THEN Keys(sent[1]) = {"method"}
              ELSE /\ Keys(sent[1]) = {"method", "params"}
                   /\ ~HasNull(SentStorageId)
                   /\ Pair("isLocalStorage", JBool(args.storage_id.is_local_storage))
                          \in SentStorageId
                   /\ ("securityOrigin" \in Keys(SentStorageId))
                          <=> args.storage_id.security_origin # << >>
                   /\ ("storageKey" \in Keys(SentStorageId))
                          <=> args.storage_id.storage_key # << >>
                   /\ \A p \in SentStorageId :
                          /\ p.key = "securityOrigin"
                                => p.val = JStr(args.storage_id.security_origin[1])
                          /\ p.key = "storageKey"
                                => p.val = JStr(args.storage_id.storage_key[1])

\* C21 witness: a request whose StorageId has a storage key and no origin
C21_Witness ==
    /\ pc = "yielded"
    /\ op = "DOMStorage.clear"
    /\ args.storage_id.security_origin = << >>
    /\ args.storage_id.storage_key = <<"https://a.test">>
    /\ Keys(SentStorageId) = {"isLocalStorage", "storageKey"}

\* C22: every call is resolved at most once; a call resolved with a result
\* or an error was resolved by the reply carrying its own id; a call still
\* outstanding holds the PendingCall of its id, which no other outstanding
\* call shares; and once the transport has delivered every reply, in
\* whatever order, each of the N calls has its resolution.
C22_OneResolutionPerCall ==
    /\ \A c \in DOMAIN calls :
          /\ calls[c].n <= 1
          /\ calls[c].outcome \in {"result", "error"}
                => (calls[c].n = 1 /\ calls[c].by = calls[c].id)
          /\ calls[c].outcome = "pending"
                => (calls[c].n = 0 /\ [id |-> calls[c].id, call |-> c] \in pending)
    /\ \A c1, c2 \in DOMAIN calls :
          (c1 # c2 /\ calls[c1].outcome = "pending" /\ calls[c2].outcome = "pending")
              => calls[c1].id # calls[c2].id
    /\ (~closed /\ outbound = {} /\ inbound = {})
          => \A c \in DOMAIN calls : calls[c].n = 1

\* C22 witness: three calls outstanding together, the last two resolved
\* (an error, a result) while the first still waits
C22_Witness ==
    /\ Len(calls) >= 3
    /\ calls[1].outcome = "pending"
    /\ calls[2].outcome = "error"
    /\ calls[3].outcome = "result"

\* the invocations the occurrence seq caused, in order
DeliveredOf(seq) ==
    LET Of(x) == x.seq = seq IN SelectSeq(delivered, Of)

\* C23: for every dispatched occurrence, each listener subscribed to its
\* name was invoked exactly once, in subscription order, and nobody else;
\* dropping a message of unknown method leaves the receive loop running.
C23_ListenersInOrder ==
    /\ \A d \in DOMAIN dispatched :
          /\ Len(DeliveredOf(dispatched[d].seq)) = Len(dispatched[d].to)
          /\ \A i \in DOMAIN dispatched[d].to :
                DeliveredOf(dispatched[d].seq)[i] =
                    [listener |-> dispatched[d].to[i], method |-> dispatched[d].method,
                     seq |-> dispatched[d].seq]
    /\ \A i \in DOMAIN delivered :
          \E d \in DOMAIN dispatched : dispatched[d].seq = delivered[i].seq
    /\ dropped > 0 => running

\* C23 witness: after a message of unknown method was dropped, the next
\* event went to listener 2 and then listener 1, the order they subscribed in
C23_Witness ==
    /\ dropped = 1
    /\ \E d \in DOMAIN dispatched :
          /\ dispatched[d].seq = 2
          /\ dispatched[d].to = <<2, 1>>
          /\ Len(delivered) = 2
          /\ delivered[1].listener = 2
          /\ delivered[2].listener = 1

\* C24: on a closed session no PendingCall is left and no call waits: the
\* calls outstanding at the close failed with the connection-closed error,
\* and a send issued after the close failed with it at once, without id
\* and without PendingCall; nothing fails with that error before the close.
C24_CloseFailsEveryCall ==
    /\ closed
          => /\ pending = {}
             /\ ~running
             /\ \A c \in DOMAIN calls :
                   /\ calls[c].outcome # "pending"
                   /\ calls[c].late
                         => (calls[c].outcome = "closed" /\ calls[c].id = 0)
    /\ \A c \in DOMAIN calls : calls[c].outcome = "closed" => closed
    /\ nextId = Cardinality({c \in DOMAIN calls : ~calls[c].late})

\* C24 witness: the close failed an outstanding call, and a later send failed
C24_Witness ==
    /\ closed
    /\ \E c \in DOMAIN calls :
          ~calls[c].late /\ calls[c].outcome = "closed" /\ calls[c].n = 1
    /\ \E c \in DOMAIN calls : calls[c].late

\* the hit at index i of the last search passes the tests of the scan: its
\* node is in the fetched document, its tag passes the filter (or is not
\* banned), its text equals the query under exact_match
Survives(i) ==
    /\ InTree(1, hits[i])
    /\ IF args.type # ""
       THEN Lower(NodeName(FinalNode(1, hits[i]))) = args.type
       ELSE Lower(NodeName(FinalNode(1, hits[i]))) \notin Banned
    /\ args.exact => ElemText(FinalNode(1, hits[i])) = args.text

\* the indices of the hits that survive
Survivors == {i \in DOMAIN hits : Survives(i)}

\* the index of the first hit that survives
FirstSurvivor == CHOOSE i \in Survivors : \A j \in Survivors : i <= j

C26_ZeroTimeoutOneAttempt ==
    (op \in {"select", "select_all", "find", "find_all"} /\ args.timeout = 0)
        => /\ attempts = 1
           /\ pc # "sleep"
           /\ (pc = "done" /\ ret.kind = "return")
                 => ret.val = (IF op # "select_all" THEN item
                               ELSE IF ~Truthy(item) THEN List(<< >>)
                               ELSE IF args.node_name = "" THEN item
                               ELSE List(FilterName(item.elems, args.node_name)))

\* C26 witness: a select with timeout 0 found nothing and returned None
C26_Witness ==
    /\ pc = "done"
    /\ op = "select"
    /\ args.timeout = 0
    /\ attempts = 1
    /\ hits = << >>
    /\ ret = Returned(None)

\* C27: a find_element_by_text / find_elements_by_text that returned has
\* sent DOM.disable as its last command.
C27_DisableSentLast ==
    (pc = "done" /\ op \in {"find_element_by_text", "find_elements_by_text"}
        /\ ret.kind = "return")
        => (sent # << >> /\ sent[Len(sent)].cmd = "DOM.disable")

\* C28: an unscoped query_selector / query_selector_all whose selector
\* command was answered with a protocol error has sent DOM.getDocument,
\* the selector command and DOM.disable, nothing else, and raises that error.
C28_UnscopedErrorReraised ==
    (pc = "done" /\ op \in QueryOps /\ args.node = 0 /\ qerr # "")
        => /\ ret = Raised("ProtocolException", qerr)
           /\ Len(sent) = 3
           /\ sent[1].cmd = "DOM.getDocument"
           /\ sent[2].cmd \in {"DOM.querySelector", "DOM.querySelectorAll"}
           /\ sent[3].cmd = "DOM.disable"

\* C28 witness: an unscoped query_selector_all raised the error it received
C28_Witness ==
    /\ pc = "done"
    /\ op = "query_selector_all"
    /\ args.node = 0
    /\ ret = Raised("ProtocolException", "Could not find node with given id")
    /\ Count("DOM.disable") = 1

\* the node ids of the last reply found in the tree of the queried document
HitsInDoc ==
    LET InDoc(n) == InTree(qdoc, n) IN SelectSeq(hits, InDoc)

\* C29: query_selector_all returns one element per node id of the reply
\* found in the tree it queried, in the order of the reply; ids not in the
\* tree are skipped and an empty reply gives [].
C29_OneElementPerFoundId ==
    (pc = "done" /\ op = "query_selector_all" /\ ret.kind = "return")
        => /\ ret.val.k = "list"
           /\ Len(ret.val.elems) = Len(HitsInDoc)
           /\ \A i \in DOMAIN HitsInDoc : ret.val.elems[i].id = HitsInDoc[i]

\* C29 witness: of two ids in the reply the one outside the tree was skipped
C29_Witness ==
    /\ pc = "done"
    /\ op = "query_selector_all"
    /\ args.node = 0
    /\ hits = <<10, 4>>
    /\ ret = Returned(List(<<[id |-> 4, hit |-> 4]>>))

\* C30: a started DOMStorage command has yielded one request, carrying its
\* method and params; resumed with the reply it has ended with its result
\* and yielded nothing more; get_dom_storage_items ends with one Item per
\* entry of the reply, in the reply's order, the others with None.
C30_TwoPhaseCommand ==
    (op \in StorageMethods /\ pc \in {"yielded", "done"})
        => /\ Len(sent) = 1
           /\ Pair("method", JStr(op)) \in sent[1]
           /\ op \notin BareMethods
                 => /\ Pair("storageId", JDict(StorageIdToJson(args.storage_id)))
                          \in (CHOOSE p \in sent[1] : p.key = "params").val.d
                    /\ Keys((CHOOSE p \in sent[1] : p.key = "params").val.d)
                          = {"storageId"}
                              \cup (IF args.key # "" THEN {"key"} ELSE {})
                              \cup (IF args.value # "" THEN {"value"} ELSE {})
           /\ pc = "yielded" => ret = Pending
           /\ pc = "done"
                 => /\ ret.kind = "return"
                    /\ IF op = "DOMStorage.getDOMStorageItems"
                       THEN /\ Len(ret.val.elems) = Len(hits[1].entries)
                            /\ \A i \in 1..Len(hits[1].entries) :
                                  ret.val.elems[i].item = hits[1].entries[i]
                       ELSE ret.val = None

\* C30 witness: get_dom_storage_items decoded two different entries
C30_Witness ==
    /\ pc = "done"
    /\ op = "DOMStorage.getDOMStorageItems"
    /\ hits[1].entries = <<<<"b", "2">>, <<"a", "1">>>>
    /\ ret.val.elems[1].item = <<"b", "2">>
    /\ ret.val.elems[2].item = <<"a", "1">>

\* the event parsed after the command
ParsedEvent == item.elems[1]

\* C31: StorageId.from_json(s.to_json()) = s for every StorageId s: the
\* storage id of a parsed event whose JSON is the to_json of the command's
\* storage id (or that JSON with the unset members null) equals the
\* command's storage id, field by field.
C31_StorageIdRoundTrip ==
    /\ \A s \in StorageIds : StorageIdFromJson(StorageIdToJson(s)) = s
    /\ (op \in StorageMethods /\ item.k = "event")
          => /\ Get(ParsedEvent.json, "storageId").d
                    \in {StorageIdToJson(args.storage_id),
                         WithNulls(StorageIdToJson(args.storage_id))}
             /\ ParsedEvent.event.storage_id = args.storage_id

\* C31 witness: an event echoing a StorageId with an empty origin and no
\* storage key was parsed back to it
C31_Witness ==
    /\ op = "DOMStorage.clear"
    /\ item.k = "event"
    /\ args.storage_id = [is_local_storage |-> TRUE, security_origin |-> <<"">>,
                          storage_key |-> << >>]
    /\ Get(ParsedEvent.json, "storageId").d = StorageIdToJson(args.storage_id)
    /\ ParsedEvent.event.storage_id = args.storage_id

\* the calls of method o in the record of calls
CallsOf(o) == {i \in DOMAIN downloadCalls : downloadCalls[i].op = o}

\* the calls of method o that set a download path in the browser
SetBy(o) == {i \in CallsOf(o) : downloadCalls[i].issued /\ downloadCalls[i].ok}

\* C32: download_file issues set_download_behavior, with the default
\* directory, exactly when no behaviour is recorded on the tab; a
\* successful set_download_path(p) leaves ["allow", p] recorded; over the
\* calls of a tab download_file sets the default path at most once, issues
\* nothing after a path was set by the caller, and the behaviour in effect
\* in the browser is the one recorded on the tab.
C32_DefaultPathSetOnce ==
    /\ \A i \in CallsOf("download_file") :
          /\ downloadCalls[i].issued <=> (downloadCalls[i].recorded = << >>)
          /\ downloadCalls[i].issued => downloadCalls[i].path = DefaultDirectory
    /\ \A i \in DOMAIN downloadCalls :
          downloadCalls[i].ok
              => downloadCalls[i].after = <<"allow", downloadCalls[i].path>>
    /\ Cardinality(SetBy("download_file")) <= 1
    /\ \A i \in SetBy("set_download_path") :
          \A j \in CallsOf("download_file") : j > i => ~downloadCalls[j].issued
    /\ browserDownload = download_behavior
    /\ (pc = "idle" /\ downloadCalls # << >>)
          => download_behavior = downloadCalls[Len(downloadCalls)].after

\* C32 witness: the first download_file issued the default command and it
\* failed, the second issued it again and it took effect, the third issued
\* nothing
C32_Witness ==
    /\ Len(downloadCalls) = 3
    /\ pc = "done"
    /\ \A i \in 1..3 : downloadCalls[i].op = "download_file"
    /\ downloadCalls[1].issued
    /\ ~downloadCalls[1].ok
    /\ downloadCalls[2].issued
    /\ downloadCalls[2].ok
    /\ ~downloadCalls[3].issued
    /\ ret = Returned(None)
    /\ browserDownload = <<"allow", DefaultDirectory>>

====
